---------------------------- MODULE Spec2Model ----------------------------
(***************************************************************************)
(* A model of the voicebot answer server (ai_server.py, ai_server_2.py):   *)
(* the /ask handler and the three strategies it tries in turn, the safe    *)
(* math engine (try_math / safe_eval), the table of canned answers         *)
(* (local_answer) and the generative backend (ollama_reply).               *)
(*                                                                         *)
(* Texts are TLA+ strings, read character by character with SubSeq, so the *)
(* regular expressions and the str methods of the source are modelled on   *)
(* the characters they see.  Numbers are exact rationals n/d with a flag f *)
(* that tells a Python float from a Python int.                            *)
(***************************************************************************)
EXTENDS Integers, Sequences, FiniteSets, TLC

VARIABLES
    server,      \* which of the two server files is the running process
    NUM_WORDS,   \* module-level dict, in insertion order
    OP_WORDS,    \* module-level dict, in insertion order
    ALLOWED_OPS, \* module-level dict: ast operator type -> operator function
    clock,       \* the wall clock datetime.now() reads
    pc,          \* per request: where its handler thread stands
    body,        \* per request: the JSON body received
    user_text,   \* per request: local variable user_text of ask()
    math_reply,  \* per request: local variable math_reply of ask()
    reply,       \* per request: the reply returned to the caller
    calls,       \* per request: the strategies invoked, in order, with their argument
    probes,      \* per request: the intent rules whose predicate was evaluated
    now,         \* per request: the clock value its datetime.now() call read
    response,    \* per request: what the backend answered to its ollama.chat call
    expr,        \* evaluator harness: the cleaned math text handed to safe_eval
    result       \* evaluator harness: what safe_eval returned for expr

vars == <<server, NUM_WORDS, OP_WORDS, ALLOWED_OPS, clock, pc, body, user_text,
          math_reply, reply, calls, probes, now, response, expr, result>>

-----------------------------------------------------------------------------
(* Bounds of the model *)

\* handler threads that may run concurrently
NumReq == 2
\* lexemes in a request text
MaxWords == 3
\* characters in an expression handed to the evaluator harness
MaxExprLen == 5
\* ticks of the wall clock
MaxClock == 1

-----------------------------------------------------------------------------
(* Characters *)

UpperS == "ABCDEFGHIJKLMNOPQRSTUVWXYZ"
LowerS == "abcdefghijklmnopqrstuvwxyz"
DigitS == "0123456789"

At(s, i) == SubSeq(s, i, i)

\* a local variable: e is evaluated once and F is applied to its value
Bind(e, F(_)) == CHOOSE y \in { F(x) : x \in {e} } : TRUE

CharsOf(s) == { At(s, i) : i \in 1..Len(s) }

Digits == CharsOf(DigitS)
Letters == CharsOf(UpperS) \cup CharsOf(LowerS)
\* \w of the re module
WordChars == Letters \cup Digits \cup {"_"}
\* \s of the re module, and what str.strip() removes
Whitespace == {" ", "\t", "\n"}
\* the characters the filter of try_math keeps: [\d+\-*/. ]
MathChars == Digits \cup {"+", "-", "*", "/", ".", " "}

DigitVal(c) == CHOOSE k \in 0..9 : At(DigitS, k + 1) = c

LowerChar(c) ==
    IF c \in CharsOf(UpperS)
    THEN At(LowerS, CHOOSE k \in 1..26 : At(UpperS, k) = c)
    ELSE c

-----------------------------------------------------------------------------
(* str methods and the regular-expression primitives the source uses *)

RECURSIVE MapChars(_, _, _)
\* the characters of s from index i on that are in keep, in order
MapChars(s, i, keep) ==
    IF i > Len(s) THEN ""
    ELSE (IF At(s, i) \in keep THEN At(s, i) ELSE "") \o MapChars(s, i + 1, keep)

RECURSIVE LowerFrom(_, _)
LowerFrom(s, i) ==
    IF i > Len(s) THEN "" ELSE LowerChar(At(s, i)) \o LowerFrom(s, i + 1)

\* str.lower()
lower(s) == LowerFrom(s, 1)

\* re.sub(r"[^...]", "", s) for a negated character class: keep the class
KeepOnly(s, keep) == MapChars(s, 1, keep)

RECURSIVE FirstNonSpace(_, _)
FirstNonSpace(s, i) ==
    IF i > Len(s) \/ At(s, i) \notin Whitespace THEN i ELSE FirstNonSpace(s, i + 1)

RECURSIVE LastNonSpace(_, _)
LastNonSpace(s, j) ==
    IF j < 1 \/ At(s, j) \notin Whitespace THEN j ELSE LastNonSpace(s, j - 1)

\* str.strip()
strip(s) == SubSeq(s, FirstNonSpace(s, 1), LastNonSpace(s, Len(s)))

\* the literal p occurs in s at index i
OccursAt(s, i, p) ==
    /\ i + Len(p) - 1 <= Len(s)
    /\ SubSeq(s, i, i + Len(p) - 1) = p

\* \b holds between index i-1 and index i of s
BoundaryAt(s, i) ==
    LET before == i > 1 /\ At(s, i - 1) \in WordChars
        after == i <= Len(s) /\ At(s, i) \in WordChars
    IN  before # after

\* the literal p, with \b before it when lb and \b after it when rb,
\* matches s at index i
MatchAt(s, i, p, lb, rb) ==
    /\ OccursAt(s, i, p)
    /\ lb => BoundaryAt(s, i)
    /\ rb => BoundaryAt(s, i + Len(p))

\* re.search of the literal p with optional \b on either side
Search(s, p, lb, rb) == \E i \in 1..Len(s) : MatchAt(s, i, p, lb, rb)

\* p in s
Contains(s, p) == Search(s, p, FALSE, FALSE)

RECURSIVE ReplaceFrom(_, _, _, _, _, _)
\* left to right, non-overlapping: every match of p (with its \b's) becomes r
ReplaceFrom(s, i, p, r, lb, rb) ==
    IF i > Len(s) THEN ""
    ELSE IF MatchAt(s, i, p, lb, rb)
         THEN r \o ReplaceFrom(s, i + Len(p), p, r, lb, rb)
         ELSE At(s, i) \o ReplaceFrom(s, i + 1, p, r, lb, rb)

\* re.sub(rf"\b{word}\b", r, s)
SubWord(s, word, r) == ReplaceFrom(s, 1, word, r, TRUE, TRUE)

\* s.replace(p, r)
replace(s, p, r) == ReplaceFrom(s, 1, p, r, FALSE, FALSE)

RECURSIVE SkipSpaces(_, _)
\* \s* from index i: the first index not holding whitespace
SkipSpaces(s, i) ==
    IF i <= Len(s) /\ At(s, i) \in Whitespace THEN SkipSpaces(s, i + 1) ELSE i

\* (\d)\s*x\s*(\d) matches s at index i: the index of the second digit, else 0
InfixXAt(s, i) ==
    IF i > Len(s) \/ At(s, i) \notin Digits THEN 0
    ELSE LET j == SkipSpaces(s, i + 1) IN
         IF j > Len(s) \/ At(s, j) # "x" THEN 0
         ELSE LET k == SkipSpaces(s, j + 1) IN
              IF k > Len(s) \/ At(s, k) \notin Digits THEN 0 ELSE k

RECURSIVE SubInfixX(_, _)
\* re.sub(r"(\d)\s*x\s*(\d)", r"\1*\2", s), left to right, non-overlapping
SubInfixX(s, i) ==
    IF i > Len(s) THEN ""
    ELSE LET k == InfixXAt(s, i) IN
         IF k > 0
         THEN At(s, i) \o "*" \o At(s, k) \o SubInfixX(s, k + 1)
         ELSE At(s, i) \o SubInfixX(s, i + 1)

-----------------------------------------------------------------------------
(* Python numbers: the exact value n/d (d > 0, lowest terms); f: it is a float *)

Abs(k) == IF k < 0 THEN -k ELSE k

RECURSIVE GCD(_, _)
GCD(a, b) == IF b = 0 THEN a ELSE GCD(b, a % b)

Num(n, d, f) ==
    LET g == GCD(Abs(n), Abs(d))
        sg == IF d < 0 THEN -1 ELSE 1
    IN  [n |-> sg * (n \div g), d |-> sg * (d \div g), f |-> f]

IntNum(k) == [n |-> k, d |-> 1, f |-> FALSE]

NoNum == [n |-> 0, d |-> 0, f |-> FALSE]

\* operator.add
add(a, b) == Num(a.n * b.d + b.n * a.d, a.d * b.d, a.f \/ b.f)
\* operator.sub
sub(a, b) == Num(a.n * b.d - b.n * a.d, a.d * b.d, a.f \/ b.f)
\* operator.mul
mul(a, b) == Num(a.n * b.n, a.d * b.d, a.f \/ b.f)
\* operator.truediv, defined when b is not zero; the quotient is a float
truediv(a, b) == Num(a.n * b.d, a.d * b.n, TRUE)

\* a raised result: the exception's class
Raise(exc) == [ok |-> FALSE, v |-> NoNum, exc |-> exc]
Return(v) == [ok |-> TRUE, v |-> v, exc |-> ""]

\* Apply without the zero check of a true division: the quotient by zero
\* comes back as a value
ApplyNoZeroCheck(fn, a, b) ==
    CASE fn = "add" -> Return(add(a, b))
      [] fn = "sub" -> Return(sub(a, b))
      [] fn = "mul" -> Return(mul(a, b))
      [] fn = "truediv" -> IF b.n = 0 THEN Return(NoNum) ELSE Return(truediv(a, b))
      [] OTHER -> Raise("TypeError")

\* ALLOWED_OPS[op](a, b) for the operator function named fn
Apply(fn, a, b) ==
    CASE fn = "add" -> Return(add(a, b))
      [] fn = "sub" -> Return(sub(a, b))
      [] fn = "mul" -> Return(mul(a, b))
      [] fn = "truediv" ->
            IF b.n = 0 THEN Raise("ZeroDivisionError") ELSE Return(truediv(a, b))
      [] OTHER -> Raise("TypeError")

-----------------------------------------------------------------------------
(* ast.parse(expr, mode="eval") on the characters the filter lets through:  *)
(* the tokenizer, then the expression grammar                               *)
(*   sum:    term (('+' | '-') term)*                                       *)
(*   term:   factor (('*' | '/' | '//') factor)*                            *)
(*   factor: ('+' | '-') factor | power                                     *)
(*   power:  atom ['**' factor]                                             *)
(*   atom:   NUMBER | '...'                                                 *)

RECURSIVE DigitsEnd(_, _)
\* the first index from i on that holds no digit
DigitsEnd(s, i) ==
    IF i <= Len(s) /\ At(s, i) \in Digits THEN DigitsEnd(s, i + 1) ELSE i

RECURSIVE DigitsValue(_, _, _)
\* the number the digits s[i..j-1] spell
DigitsValue(s, i, j) ==
    IF j <= i THEN 0 ELSE 10 * DigitsValue(s, i, j - 1) + DigitVal(At(s, j - 1))

RECURSIVE Pow10(_)
Pow10(k) == IF k = 0 THEN 1 ELSE 10 * Pow10(k - 1)

Tok(k, s, v, next) == [k |-> k, s |-> s, v |-> v, next |-> next]

\* the token of s that starts at index i (no whitespace there); next is the
\* index after it.  k is "num", "op" or "err".
TokenAt(s, i) ==
    LET c == At(s, i) IN
    IF c \in Digits THEN
        LET j == DigitsEnd(s, i) IN
        IF j <= Len(s) /\ At(s, j) = "."
        THEN \* pointfloat: digitpart "." [digitpart]
             LET m == DigitsEnd(s, j + 1) IN
             Tok("num", "",
                 Num(DigitsValue(s, i, j) * Pow10(m - j - 1) + DigitsValue(s, j + 1, m),
                     Pow10(m - j - 1), TRUE), m)
        ELSE \* decimal integer: a nonzero digit then digits, or zeros only
             IF j - i > 1 /\ c = "0" /\ DigitsValue(s, i, j) # 0
             THEN Tok("err", "", NoNum, j)
             ELSE Tok("num", "", IntNum(DigitsValue(s, i, j)), j)
    ELSE IF c = "." THEN
        LET m == DigitsEnd(s, i + 1) IN
        IF m > i + 1
        THEN \* pointfloat: "." digitpart
             Tok("num", "", Num(DigitsValue(s, i + 1, m), Pow10(m - i - 1), TRUE), m)
        ELSE IF OccursAt(s, i, "...") THEN Tok("op", "...", NoNum, i + 3)
        ELSE Tok("op", ".", NoNum, i + 1)
    ELSE IF OccursAt(s, i, "**") THEN Tok("op", "**", NoNum, i + 2)
    ELSE IF OccursAt(s, i, "//") THEN Tok("op", "//", NoNum, i + 2)
    ELSE IF c \in {"+", "-", "*", "/"} THEN Tok("op", c, NoNum, i + 1)
    ELSE Tok("err", "", NoNum, i + 1)

\* what the tokenizer skips between the tokens of a line
Blanks == {" ", "\t"}

RECURSIVE SkipBlanks(_, _)
SkipBlanks(s, i) ==
    IF i <= Len(s) /\ At(s, i) \in Blanks THEN SkipBlanks(s, i + 1) ELSE i

RECURSIVE TokensFrom(_, _)
\* the tokens of s from index i on; a tokenizer error ends the sequence with
\* an "err" token
TokensFrom(s, i) ==
    LET j == SkipBlanks(s, i) IN
    IF j > Len(s) THEN <<>>
    ELSE LET t == TokenAt(s, j) IN
         IF t.k = "err" THEN <<t>> ELSE <<t>> \o TokensFrom(s, t.next)

Tokenize(s) == TokensFrom(s, 1)

IsOp(toks, p, ops) == p <= Len(toks) /\ toks[p].k = "op" /\ toks[p].s \in ops

\* a parse: ok, the node built and the index of the next token
Parsed(node, pos) == [ok |-> TRUE, node |-> node, pos |-> pos]
NoParse == [ok |-> FALSE, node |-> [type |-> "None"], pos |-> 0]

BinOpType(s) ==
    CASE s = "+" -> "Add" [] s = "-" -> "Sub" [] s = "*" -> "Mult"
      [] s = "/" -> "Div" [] s = "//" -> "FloorDiv" [] s = "**" -> "Pow"

BinOp(op, left, right) ==
    [type |-> "BinOp", op |-> BinOpType(op), left |-> left, right |-> right]

RECURSIVE ParseSum(_, _), SumRest(_, _), ParseTerm(_, _), TermRest(_, _),
          ParseFactor(_, _), ParsePower(_, _), TermRestFlat(_, _)

\* atom: NUMBER | '...'
ParseAtom(toks, p) ==
    IF p > Len(toks) THEN NoParse
    ELSE IF toks[p].k = "num" THEN Parsed([type |-> "Num", n |-> toks[p].v], p + 1)
    ELSE IF IsOp(toks, p, {"..."}) THEN Parsed([type |-> "Ellipsis"], p + 1)
    ELSE NoParse

\* power: atom ['**' factor]
ParsePower(toks, p) ==
    Bind(ParseAtom(toks, p), LAMBDA a :
        IF ~a.ok \/ ~IsOp(toks, a.pos, {"**"}) THEN a
        ELSE Bind(ParseFactor(toks, a.pos + 1), LAMBDA e :
                 IF ~e.ok THEN NoParse ELSE Parsed(BinOp("**", a.node, e.node), e.pos)))

\* factor: ('+' | '-') factor | power
ParseFactor(toks, p) ==
    IF IsOp(toks, p, {"+", "-"})
    THEN Bind(ParseFactor(toks, p + 1), LAMBDA o :
             IF ~o.ok THEN NoParse
             ELSE Parsed([type |-> "UnaryOp", op |-> toks[p].s, operand |-> o.node],
                         o.pos))
    ELSE ParsePower(toks, p)

\* TermRest that also takes '+' and '-': all operators on one level of
\* precedence
TermRestFlat(toks, left) ==
    Bind(left, LAMBDA l :
        IF ~IsOp(toks, l.pos, {"*", "/", "//", "+", "-"}) THEN l
        ELSE Bind(ParseFactor(toks, l.pos + 1), LAMBDA r :
                 IF ~r.ok THEN NoParse
                 ELSE TermRestFlat(toks,
                          Parsed(BinOp(toks[l.pos].s, l.node, r.node), r.pos))))

\* (('*' | '/' | '//') factor)*, the operators associating to the left
TermRest(toks, left) ==
    Bind(left, LAMBDA l :
        IF ~IsOp(toks, l.pos, {"*", "/", "//"}) THEN l
        ELSE Bind(ParseFactor(toks, l.pos + 1), LAMBDA r :
                 IF ~r.ok THEN NoParse
                 ELSE TermRest(toks, Parsed(BinOp(toks[l.pos].s, l.node, r.node), r.pos))))

ParseTerm(toks, p) ==
    Bind(ParseFactor(toks, p), LAMBDA l : IF ~l.ok THEN NoParse ELSE TermRest(toks, l))

\* (('+' | '-') term)*, the operators associating to the left
SumRest(toks, left) ==
    Bind(left, LAMBDA l :
        IF ~IsOp(toks, l.pos, {"+", "-"}) THEN l
        ELSE Bind(ParseTerm(toks, l.pos + 1), LAMBDA r :
                 IF ~r.ok THEN NoParse
                 ELSE SumRest(toks, Parsed(BinOp(toks[l.pos].s, l.node, r.node), r.pos))))

ParseSum(toks, p) ==
    Bind(ParseTerm(toks, p), LAMBDA l : IF ~l.ok THEN NoParse ELSE SumRest(toks, l))

\* ast.parse(expr, mode="eval"): the whole text is one expression, or SyntaxError
\* (a text that starts with a blank is an IndentationError, a SyntaxError too)
ast_parse(s) ==
    Bind(Tokenize(s), LAMBDA toks :
        IF toks = <<>> \/ toks[Len(toks)].k = "err" \/ At(s, 1) \in Blanks THEN NoParse
        ELSE Bind(ParseSum(toks, 1), LAMBDA e :
                 IF e.ok /\ e.pos = Len(toks) + 1 THEN e ELSE NoParse))

RECURSIVE _eval(_)
_eval(node) ==
    IF node.type = "Num" THEN Return(node.n)
    ELSE IF node.type = "BinOp" THEN
        IF node.op \notin DOMAIN ALLOWED_OPS THEN Raise("ValueError")
        ELSE Bind(_eval(node.left), LAMBDA l :
                 IF ~l.ok THEN l
                 ELSE Bind(_eval(node.right), LAMBDA r :
                          IF ~r.ok THEN r ELSE Apply(ALLOWED_OPS[node.op], l.v, r.v)))
    ELSE Raise("ValueError")

safe_eval(s) ==
    Bind(ast_parse(s), LAMBDA tree :
        IF ~tree.ok THEN Raise("SyntaxError") ELSE _eval(tree.node))

-----------------------------------------------------------------------------
(* The module-level tables, as the interpreter builds them at import *)

NumWordsInit ==
    << [word |-> "zero", num |-> 0], [word |-> "one", num |-> 1],
       [word |-> "two", num |-> 2], [word |-> "three", num |-> 3],
       [word |-> "four", num |-> 4], [word |-> "five", num |-> 5],
       [word |-> "six", num |-> 6], [word |-> "seven", num |-> 7],
       [word |-> "eight", num |-> 8], [word |-> "nine", num |-> 9],
       [word |-> "ten", num |-> 10], [word |-> "eleven", num |-> 11],
       [word |-> "twelve", num |-> 12] >>

OpWordsInit ==
    << [word |-> "plus", op |-> "+"], [word |-> "minus", op |-> "-"],
       [word |-> "into", op |-> "*"], [word |-> "times", op |-> "*"],
       [word |-> "multiplied by", op |-> "*"], [word |-> "divide by", op |-> "/"],
       [word |-> "divided by", op |-> "/"] >>

AllowedOpsInit ==
    [t \in {"Add", "Sub", "Mult", "Div"} |->
        CASE t = "Add" -> "add" [] t = "Sub" -> "sub"
          [] t = "Mult" -> "mul" [] t = "Div" -> "truediv"]

Servers == {"ai_server.py", "ai_server_2.py"}

-----------------------------------------------------------------------------
(* Replies.  A reply is a format and what fills it: a number (num) or a     *)
(* string (str).  some = FALSE is Python's None.                            *)

None == [some |-> FALSE, fmt |-> "", num |-> NoNum, str |-> ""]
Fixed(text) == [some |-> TRUE, fmt |-> text, num |-> NoNum, str |-> ""]
Filled(fmt, num) == [some |-> TRUE, fmt |-> fmt, num |-> num, str |-> ""]
Verbatim(str) == [some |-> TRUE, fmt |-> "{}", num |-> NoNum, str |-> str]

\* bool(reply): None and the empty string are false
Truthy(rep) == rep.some /\ ~(rep.fmt = "{}" /\ rep.str = "") /\ rep.fmt # ""

-----------------------------------------------------------------------------
(* The safe math engine *)

RECURSIVE NumbersFrom(_, _)
NumbersFrom(text, k) ==
    IF k > Len(NUM_WORDS) THEN text
    ELSE Bind(SubWord(text, NUM_WORDS[k].word, ToString(NUM_WORDS[k].num)),
              LAMBDA t : NumbersFrom(t, k + 1))

words_to_numbers(text) == NumbersFrom(text, 1)

RECURSIVE OperatorsFrom(_, _)
OperatorsFrom(text, k) ==
    IF k > Len(OP_WORDS) THEN text
    ELSE Bind(replace(text, OP_WORDS[k].word, OP_WORDS[k].op),
              LAMBDA t : OperatorsFrom(t, k + 1))

words_to_operators(text) == Bind(SubInfixX(text, 1), LAMBDA t : OperatorsFrom(t, 1))

\* MathCue that asks for an operator word or symbol
MathCueOperatorsOnly(t) ==
    \E w \in {"plus", "minus", "into", "times", "multiply", "multiplied",
               "divide", "divided", "x"} : Contains(t, w)

\* re.search(r"(plus|minus|into|times|multiply|multiplied|divide|divided|\d|x)", t)
MathCue(t) ==
    \/ \E w \in {"plus", "minus", "into", "times", "multiply", "multiplied",
                 "divide", "divided", "x"} : Contains(t, w)
    \/ \E i \in 1..Len(t) : At(t, i) \in Digits

\* lines 79-81: the text try_math hands to safe_eval
MathClean(text) ==
    Bind(lower(text), LAMBDA t0 :
    Bind(words_to_numbers(t0), LAMBDA t1 :
    Bind(words_to_operators(t1), LAMBDA t2 :
    Bind(KeepOnly(t2, MathChars), LAMBDA t3 : strip(t3)))))

\* lines 85-86: a float that is an integer is shown as the int
Display(v) == IF v.f /\ v.d = 1 THEN [v EXCEPT !.f = FALSE] ELSE v

\* the f-string of line 87 (ai_server.py) and line 86 (ai_server_2.py)
MathFormat(srv) ==
    IF srv = "ai_server.py" THEN "The answer is: {}." ELSE "The answer is {}."

try_math(text) ==
    IF ~Bind(lower(text), LAMBDA t : MathCue(t)) THEN None
    ELSE Bind(MathClean(text), LAMBDA t :
         Bind(safe_eval(t), LAMBDA res :
             IF res.ok THEN Filled(MathFormat(server), Display(res.v)) ELSE None))

-----------------------------------------------------------------------------
(* The canned answers *)

normalize_intent(text) ==
    Bind(lower(text), LAMBDA t0 :
    Bind(strip(t0), LAMBDA t1 : KeepOnly(t1, WordChars \cup Whitespace)))

\* one alternative of a searched pattern: the literal p, \b before it when lb;
\* then, when more # {}, \s+ and one of the literals of more; \b at the end
\* when rb
Pat(p, lb, rb) == [p |-> p, lb |-> lb, rb |-> rb, more |-> {}]
PatGap(p, more) == [p |-> p, lb |-> TRUE, rb |-> TRUE, more |-> more]
\* \b(a|b|...)\b
Words(ps) == { Pat(p, TRUE, TRUE) : p \in ps }

PatMatchesAt(t, i, pat) ==
    IF pat.more = {} THEN MatchAt(t, i, pat.p, pat.lb, pat.rb)
    ELSE /\ MatchAt(t, i, pat.p, pat.lb, FALSE)
         /\ LET j == i + Len(pat.p)
                k == SkipSpaces(t, j)
            IN  /\ k > j
                /\ \E q \in pat.more : MatchAt(t, k, q, FALSE, pat.rb)

\* if re.fullmatch(...): the alternatives of the pattern spelled out
FullMatch(strs, rep) ==
    [kind |-> "fullmatch", strs |-> strs, pats |-> {}, reply |-> rep, clock |-> FALSE]
\* if re.search(...): return a fixed string
SearchRule(pats, rep) ==
    [kind |-> "search", strs |-> {}, pats |-> pats, reply |-> rep, clock |-> FALSE]
\* if re.search(...): return datetime.now().strftime(fmt)
ClockRule(pats, fmt) ==
    [kind |-> "search", strs |-> {}, pats |-> pats, reply |-> fmt, clock |-> TRUE]

Greetings ==
    { g \o n : g \in {"hi", "hello", "hey", "namaste"}, n \in {"", " aarya", " ariya"} }

\* the if-chain of local_answer in ai_server.py, top to bottom
Rules1 ==
    << FullMatch(Greetings, "Hello, I am Aarya, how can I assist you today."),
       FullMatch({"hello arya"}, "Hello, I am Aarya, how can I assist you today."),
       ClockRule(Words({"current time", "time now"}), "The current time is %I:%M %p."),
       ClockRule(Words({"date today", "today date"}), "Today's date is %d %B %Y."),
       ClockRule(Words({"today day", "what day"}), "Today is %A."),
       ClockRule(Words({"current month"}), "The current month is %B."),
       ClockRule(Words({"current year"}), "The current year is %Y."),
       SearchRule(Words({"who are you"}),
           "I am Aarya, a humanoid receptionist robot developed by Ecruxbot."),
       SearchRule(Words({"your name"}), "My name is Aarya."),
       SearchRule(Words({"how are you"}), "I am fine, thank you for asking."),
       SearchRule(Words({"features"}),
           "I can communicate through speech, answer visitor queries, and showcase company technologies."),
       SearchRule(Words({"ecruxbot"}),
           "Ecruxbot is an Indian robotics and artificial intelligence company."),
       SearchRule(Words({"tell me about your company", "about your company", "your company"}),
           "Ecruxbot is an Indian robotics and artificial intelligence company."),
       SearchRule(Words({"team"}),
           "The Ecruxbot team includes Hitendra Valhe, Bhagyesh Tajne, and Virendra Valhe."),
       SearchRule(Words({"website"}), "Our official website is ecruxbot.in."),
       SearchRule(Words({"contact", "email"}),
           "You can contact Ecruxbot at ecruxbot@gmail.com."),
       SearchRule(Words({"purpose", "why are you here"}),
           "I am designed to assist visitors and provide information."),
       SearchRule(Words({"language"}),
           "I currently speak English and will support Hindi and Marathi in the future."),
       FullMatch({"thanks", "thank you", "thank u"}, "You are welcome.") >>

\* the if-chain of local_answer in ai_server_2.py, top to bottom
Rules2 ==
    << FullMatch(Greetings, "Hello! I am Aarya. How can I help you today?"),
       ClockRule(Words({"current time", "time now"}), "The current time is %I:%M %p."),
       ClockRule(Words({"date today", "today date", "what is the date"}),
           "Today's date is %d %B %Y."),
       ClockRule(Words({"today day", "what day is it"}), "Today is %A."),
       SearchRule({PatGap("hello", {"aarya", "arya", "aria"})},
           "Hello! I am Aarya. How can I help you today?"),
       SearchRule(Words({"who are you"}),
           "I am Aarya, your friendly humanoid receptionist robot."),
       SearchRule(Words({"your name"}), "My name is Aarya."),
       SearchRule(Words({"ecruxbot", "your company", "about your company",
                         "tell me about your company"}),
           "Ecruxbot is an Indian company creating robots and AI solutions for everyone"),
       SearchRule(Words({"your team", "tell me about your team", "who is in your team"}),
           "Our team consists of Hitendra Valhe, Virendra Valhe, and Bhagyesh Tajne."),
       SearchRule(Words({"website"}), "You can visit our website at ecruxbot.in."),
       SearchRule({Pat("location", TRUE, FALSE), Pat("address", FALSE, TRUE)},
           "Our office is at 2nd Floor, Near M. J. College, Jalgaon, Maharashtra, India."),
       SearchRule({Pat("what can you do", TRUE, FALSE), Pat("services", FALSE, FALSE),
                   Pat("help", FALSE, TRUE)},
           "I can answer questions, tell time, provide company info, and chat with you."),
       FullMatch({"thanks", "thank you", "thank u"}, "You are welcome! "),
       FullMatch({"bye", "goodbye", "see you"}, "Goodbye! Have a great day.") >>

Rules(srv) == IF srv = "ai_server.py" THEN Rules1 ELSE Rules2

\* the condition of one if of the chain, on the normalized text t
RuleMatches(rule, t) ==
    IF rule.kind = "fullmatch" THEN t \in rule.strs
    ELSE \E pat \in rule.pats : \E i \in 1..Len(t) : PatMatchesAt(t, i, pat)

\* what the body of a matching if returns; clk is what datetime.now() reads
RuleReply(rule, clk) ==
    IF rule.clock THEN Filled(rule.reply, IntNum(clk)) ELSE Fixed(rule.reply)

\* the outcome of local_answer: the reply, how many conditions of the chain
\* were evaluated, and whether the clock was read
Answer(rep, probed, clocked) == [reply |-> rep, probed |-> probed, clocked |-> clocked]

RECURSIVE ChainLastMatch(_, _, _, _)
\* Chain that goes on after a match: the last matching if decides
ChainLastMatch(rules, t, clk, k) ==
    IF k > Len(rules) THEN Answer(None, Len(rules), FALSE)
    ELSE Bind(ChainLastMatch(rules, t, clk, k + 1), LAMBDA later :
             IF later.reply.some \/ ~RuleMatches(rules[k], t) THEN later
             ELSE Answer(RuleReply(rules[k], clk), Len(rules), rules[k].clock))

RECURSIVE Chain(_, _, _, _)
\* the if-chain from its k-th if on
Chain(rules, t, clk, k) ==
    IF k > Len(rules) THEN Answer(None, Len(rules), FALSE)
    ELSE IF RuleMatches(rules[k], t)
         THEN Answer(RuleReply(rules[k], clk), k, rules[k].clock)
         ELSE Chain(rules, t, clk, k + 1)

local_answer(text, clk) ==
    Bind(normalize_intent(text), LAMBDA t : Chain(Rules(server), t, clk, 1))

-----------------------------------------------------------------------------
(* The generative backend *)

\* what response["message"]["content"] may hold
BackendContents == {"I am here to help.", "  Sure. \n", ""}

\* the backend's response to one ollama.chat call
NoResponse == [state |-> "none", content |-> ""]
Answered(content) == [state |-> "answered", content |-> content]
Failed == [state |-> "failed", content |-> ""]

\* line 183: the content, stripped
ollama_reply(content) == Verbatim(strip(content))

-----------------------------------------------------------------------------
(* Inputs *)

RECURSIVE Phrases(_, _)
\* the texts of at most n lexemes of voc, single spaces between them
Phrases(voc, n) ==
    IF n = 0 THEN {""}
    ELSE LET shorter == Phrases(voc, n - 1) IN
         shorter \cup { IF p = "" THEN w ELSE p \o " " \o w : p \in shorter, w \in voc }

RECURSIVE Strings(_, _)
\* the strings of at most n characters of alphabet
Strings(alphabet, n) ==
    IF n = 0 THEN {""}
    ELSE LET shorter == Strings(alphabet, n - 1) IN
         shorter \cup { p \o c : p \in shorter, c \in alphabet }

\* the requests of the concurrent server: one per path of the handler
ScenarioTexts ==
    {"", "   ", "two plus two", "10 divided by 0", "Hello", "3 x 4", "who are you",
     "what is the time now?", "(2+3)*4"}

MathVocabulary ==
    {"two", "six", "3", "10", "0", "05", "plus", "x", "divided by", "(", ".", "team"}

IntentVocabulary ==
    {"hello", "Hi", "aarya", "who are you", "team", "ecruxbot", "time now", "thanks",
     "help", "3", "!"}

MathTexts == Phrases(MathVocabulary, MaxWords)
IntentTexts == Phrases(IntentVocabulary, MaxWords)

ExprAlphabet == {"0", "2", "3", ".", "+", "-", "*", "/", " "}
\* cleaned math texts: try_math strips them (line 81)
ExprTexts == { e \in Strings(ExprAlphabet, MaxExprLen) : strip(e) = e }

\* request.get_json(silent=True) or {}: with a "text" field or without
NoText == [has |-> FALSE, text |-> ""]
WithText(t) == [has |-> TRUE, text |-> t]

-----------------------------------------------------------------------------
(* The /ask handler, one thread per request *)

Reqs == 1..NumReq

NotRun == Raise("not run")

Log(r, fn, arg) == calls' = [calls EXCEPT ![r] = Append(@, [fn |-> fn, arg |-> arg])]

\* Receive without the .strip() of line 192
ReceiveUnstripped(r, texts) ==
    /\ pc[r] = "idle"
    /\ \E b \in {NoText} \cup { WithText(t) : t \in texts } :
          /\ body' = [body EXCEPT ![r] = b]
          /\ user_text' = [user_text EXCEPT ![r] = IF b.has THEN b.text ELSE ""]
    /\ pc' = [pc EXCEPT ![r] = "start"]
    /\ UNCHANGED <<server, NUM_WORDS, OP_WORDS, ALLOWED_OPS, clock, math_reply, reply,
                   calls, probes, now, response, expr, result>>

\* Receive with user_text a module-level global that every thread assigns
ReceiveShared(r, texts) ==
    /\ pc[r] = "idle"
    /\ \E b \in {NoText} \cup { WithText(t) : t \in texts } :
          /\ body' = [body EXCEPT ![r] = b]
          /\ user_text' = [q \in Reqs |-> strip(IF b.has THEN b.text ELSE "")]
    /\ pc' = [pc EXCEPT ![r] = "start"]
    /\ UNCHANGED <<server, NUM_WORDS, OP_WORDS, ALLOWED_OPS, clock, math_reply, reply,
                   calls, probes, now, response, expr, result>>

\* lines 191-192
Receive(r, texts) ==
    /\ pc[r] = "idle"
    /\ \E b \in {NoText} \cup { WithText(t) : t \in texts } :
          /\ body' = [body EXCEPT ![r] = b]
          /\ user_text' = [user_text EXCEPT ![r] = strip(IF b.has THEN b.text ELSE "")]
    /\ pc' = [pc EXCEPT ![r] = "start"]
    /\ UNCHANGED <<server, NUM_WORDS, OP_WORDS, ALLOWED_OPS, clock, math_reply, reply,
                   calls, probes, now, response, expr, result>>

\* lines 194-199
ReplyPrompt(r) ==
    /\ pc[r] = "start"
    /\ user_text[r] = ""
    /\ reply' = [reply EXCEPT ![r] = Fixed("Please say something.")]
    /\ pc' = [pc EXCEPT ![r] = "done"]
    /\ UNCHANGED <<server, NUM_WORDS, OP_WORDS, ALLOWED_OPS, clock, body, user_text,
                   math_reply, calls, probes, now, response, expr, result>>

\* lines 202-207: try_math gives a reply, which is returned
MathHit(r) ==
    /\ pc[r] = "start"
    /\ user_text[r] # ""
    /\ \E m \in {try_math(user_text[r])} :
          /\ Truthy(m)
          /\ math_reply' = [math_reply EXCEPT ![r] = m]
          /\ reply' = [reply EXCEPT ![r] = m]
    /\ Log(r, "try_math", user_text[r])
    /\ pc' = [pc EXCEPT ![r] = "done"]
    /\ UNCHANGED <<server, NUM_WORDS, OP_WORDS, ALLOWED_OPS, clock, body, user_text,
                   probes, now, response, expr, result>>

\* MathMiss without the test of line 203: the handler goes on whatever
\* try_math gave
MathMissAlways(r) ==
    /\ pc[r] = "start"
    /\ user_text[r] # ""
    /\ \E m \in {try_math(user_text[r])} :
          math_reply' = [math_reply EXCEPT ![r] = m]
    /\ Log(r, "try_math", user_text[r])
    /\ pc' = [pc EXCEPT ![r] = "local"]
    /\ UNCHANGED <<server, NUM_WORDS, OP_WORDS, ALLOWED_OPS, clock, body, user_text,
                   reply, probes, now, response, expr, result>>

\* lines 202-203: try_math gives None, the handler goes on
MathMiss(r) ==
    /\ pc[r] = "start"
    /\ user_text[r] # ""
    /\ \E m \in {try_math(user_text[r])} :
          /\ ~Truthy(m)
          /\ math_reply' = [math_reply EXCEPT ![r] = m]
    /\ Log(r, "try_math", user_text[r])
    /\ pc' = [pc EXCEPT ![r] = "local"]
    /\ UNCHANGED <<server, NUM_WORDS, OP_WORDS, ALLOWED_OPS, clock, body, user_text,
                   reply, probes, now, response, expr, result>>

\* lines 210-215: local_answer gives a reply, which is returned
LocalHit(r) ==
    /\ pc[r] = "local"
    /\ \E a \in {local_answer(user_text[r], clock)} :
          /\ Truthy(a.reply)
          /\ reply' = [reply EXCEPT ![r] = a.reply]
          /\ probes' = [probes EXCEPT ![r] = a.probed]
          /\ now' = [now EXCEPT ![r] = IF a.clocked THEN clock ELSE @]
    /\ Log(r, "local_answer", user_text[r])
    /\ pc' = [pc EXCEPT ![r] = "done"]
    /\ UNCHANGED <<server, NUM_WORDS, OP_WORDS, ALLOWED_OPS, clock, body, user_text,
                   math_reply, response, expr, result>>

\* lines 210-211: local_answer gives None, the handler goes on
LocalMiss(r) ==
    /\ pc[r] = "local"
    /\ \E a \in {local_answer(user_text[r], clock)} :
          /\ ~Truthy(a.reply)
          /\ reply' = [reply EXCEPT ![r] = a.reply]
          /\ probes' = [probes EXCEPT ![r] = a.probed]
    /\ Log(r, "local_answer", user_text[r])
    /\ pc' = [pc EXCEPT ![r] = "backend"]
    /\ UNCHANGED <<server, NUM_WORDS, OP_WORDS, ALLOWED_OPS, clock, body, user_text,
                   math_reply, now, response, expr, result>>

\* lines 218-222: the backend answers, its content is returned
BackendReply(r) ==
    /\ pc[r] = "backend"
    /\ \E content \in BackendContents :
          /\ response' = [response EXCEPT ![r] = Answered(content)]
          /\ reply' = [reply EXCEPT ![r] = ollama_reply(content)]
    /\ Log(r, "ollama_reply", user_text[r])
    /\ pc' = [pc EXCEPT ![r] = "done"]
    /\ UNCHANGED <<server, NUM_WORDS, OP_WORDS, ALLOWED_OPS, clock, body, user_text,
                   math_reply, probes, now, expr, result>>

\* line 218: ollama.chat raises (backend unreachable, errored or malformed);
\* nothing in ollama_reply or ask catches it, the handler ends with the
\* exception and the caller gets no reply
BackendFail(r) ==
    /\ pc[r] = "backend"
    /\ response' = [response EXCEPT ![r] = Failed]
    /\ Log(r, "ollama_reply", user_text[r])
    /\ pc' = [pc EXCEPT ![r] = "raised"]
    /\ UNCHANGED <<server, NUM_WORDS, OP_WORDS, ALLOWED_OPS, clock, body, user_text,
                   math_reply, reply, probes, now, expr, result>>

Handler(r) ==
    \/ ReplyPrompt(r)
    \/ MathHit(r)
    \/ MathMiss(r)
    \/ LocalHit(r)
    \/ LocalMiss(r)
    \/ BackendReply(r)
    \/ BackendFail(r)

\* the wall clock advances
Tick ==
    /\ clock < MaxClock
    /\ clock' = clock + 1
    /\ UNCHANGED <<server, NUM_WORDS, OP_WORDS, ALLOWED_OPS, pc, body, user_text,
                   math_reply, reply, calls, probes, now, response, expr, result>>

\* the evaluator harness: safe_eval applied to a cleaned math text
Evaluate ==
    /\ result = NotRun
    /\ result' = safe_eval(expr)
    /\ UNCHANGED <<server, NUM_WORDS, OP_WORDS, ALLOWED_OPS, clock, pc, body, user_text,
                   math_reply, reply, calls, probes, now, response, expr>>

\* the process after import, no request received yet
Started ==
    /\ server \in Servers
    /\ NUM_WORDS = NumWordsInit
    /\ OP_WORDS = OpWordsInit
    /\ ALLOWED_OPS = AllowedOpsInit
    /\ clock = 0
    /\ pc = [r \in Reqs |-> "idle"]
    /\ body = [r \in Reqs |-> NoText]
    /\ user_text = [r \in Reqs |-> ""]
    /\ math_reply = [r \in Reqs |-> None]
    /\ reply = [r \in Reqs |-> None]
    /\ calls = [r \in Reqs |-> <<>>]
    /\ probes = [r \in Reqs |-> 0]
    /\ now = [r \in Reqs |-> 0]
    /\ response = [r \in Reqs |-> NoResponse]

Init == Started /\ expr = "" /\ result = NotRun

\* the threaded server (app.run(..., threaded=True)): requests interleave
Next == Tick \/ \E r \in Reqs : Receive(r, ScenarioTexts) \/ Handler(r)

Spec == Init /\ [][Next]_vars

\* one request at a time, its text drawn from the arithmetic vocabulary
NextMath == Receive(1, MathTexts) \/ Handler(1)

SpecMath == Init /\ [][NextMath]_vars

\* one request at a time, its text drawn from the intent vocabulary
NextIntent == Receive(1, IntentTexts) \/ Handler(1)

SpecIntent == Init /\ [][NextIntent]_vars

\* safe_eval on every cleaned math text up to MaxExprLen characters
InitEval == Started /\ expr \in ExprTexts /\ result = NotRun

NextEval == Evaluate

SpecEval == InitEval /\ [][NextEval]_vars

-----------------------------------------------------------------------------
(* Properties *)

Ended(r) == pc[r] \in {"done", "raised"}

\* the strategies request r invoked, in order
Invoked(r) == [i \in 1..Len(calls[r]) |-> calls[r][i].fn]

Strategies == <<"try_math", "local_answer", "ollama_reply">>

Prompt == Fixed("Please say something.")

BackendReplies == { ollama_reply(c) : c \in BackendContents }

\* C1: every request tries empty-check, try_math, local_answer, ollama_reply in
\* that order and stops at the first that gives a reply: local_answer runs only
\* after try_math gave none, ollama_reply only after both gave none, and the
\* reply returned is the output of the one strategy that was invoked last.
C1_StrategyOrder ==
    \A r \in Reqs :
        LET n == Len(calls[r])
            u == user_text[r]
        IN  /\ Invoked(r) = SubSeq(Strategies, 1, n)
            /\ \A i \in 1..n : calls[r][i].arg = u
            /\ n >= 1 => u # ""
            /\ n >= 2 => ~Truthy(try_math(u))
            /\ n >= 3 => ~Truthy(local_answer(u, now[r]).reply)
            /\ pc[r] = "done" =>
                  CASE n = 0 -> reply[r] = Prompt
                    [] n = 1 -> reply[r] = try_math(u) /\ Truthy(reply[r])
                    [] n = 2 -> reply[r] = local_answer(u, now[r]).reply /\ Truthy(reply[r])
                    [] n = 3 -> reply[r] \in BackendReplies

C1_Witness ==
    \E r \in Reqs :
        /\ pc[r] = "done"
        /\ Invoked(r) = Strategies
        /\ user_text[r] = "10 divided by 0"
        /\ reply[r] = Verbatim("Sure.")

\* C2: a request never ends without a reply: when the backend call fails the
\* handler still returns a (degraded) reply instead of ending with the failure.
C2_AlwaysReplies ==
    \A r \in Reqs : Ended(r) => pc[r] = "done" /\ reply[r].some

\* the evaluator fails on the text try_math cleans out of text
EvaluatorFails(text) ==
    /\ MathCue(lower(text))
    /\ ~safe_eval(MathClean(text)).ok

RECURSIVE LiteralEnd(_, _)
\* the first index from i on that holds neither a digit nor a point
LiteralEnd(e, i) ==
    IF i <= Len(e) /\ At(e, i) \in Digits \cup {"."} THEN LiteralEnd(e, i + 1) ELSE i

\* the digits of w are there and are all zeros
ZeroLiteral(w) ==
    /\ \E i \in 1..Len(w) : At(w, i) \in Digits
    /\ \A i \in 1..Len(w) : At(w, i) \in {"0", "."}

\* the cleaned text e holds a division whose right operand is a zero literal
DividesByZero(e) ==
    \E i \in 1..Len(e) :
        /\ At(e, i) = "/"
        /\ ~OccursAt(e, i, "//")
        /\ ~(i > 1 /\ At(e, i - 1) = "/")
        /\ LET j == SkipBlanks(e, i + 1) IN ZeroLiteral(SubSeq(e, j, LiteralEnd(e, j) - 1))

\* C3: when the evaluator fails on the math path, try_math gives no reply, the
\* handler runs local_answer on the same text, the reply returned comes from
\* local_answer or the backend, and with no matching intent rule the backend
\* is called; a division by a zero literal never gives a math reply.
C3_EvaluatorFailureRecovered ==
    \A r \in Reqs :
        LET u == user_text[r]
            n == Len(calls[r])
        IN  /\ (n >= 1 /\ EvaluatorFails(u)) =>
                  /\ ~math_reply[r].some
                  /\ pc[r] # "start"
                  /\ n >= 2 => calls[r][2] = [fn |-> "local_answer", arg |-> u]
                  /\ n = 1 => pc[r] = "local"
                  /\ pc[r] = "done" =>
                        reply[r] \in {local_answer(u, now[r]).reply} \cup BackendReplies
                  /\ (Ended(r) /\ ~Truthy(local_answer(u, now[r]).reply)) =>
                        n = 3 /\ calls[r][3] = [fn |-> "ollama_reply", arg |-> u]
            /\ (n >= 1 /\ DividesByZero(MathClean(u))) =>
                  ~math_reply[r].some /\ (pc[r] = "done" => reply[r].num = NoNum)

C3_Witness ==
    \E r \in Reqs :
        /\ user_text[r] = "10 divided by 0"
        /\ MathClean(user_text[r]) = "10 / 0"
        /\ safe_eval("10 / 0").exc = "ZeroDivisionError"
        /\ pc[r] = "done"
        /\ Invoked(r) = Strategies

\* C4: a request whose text is absent, empty or only whitespace gets the reply
\* "Please say something." and invokes none of try_math, local_answer and
\* ollama_reply.
C4_EmptyTextPrompt ==
    \A r \in Reqs :
        (pc[r] # "idle" /\ strip(IF body[r].has THEN body[r].text ELSE "") = "") =>
            /\ calls[r] = <<>>
            /\ pc[r] \in {"start", "done"}
            /\ pc[r] = "done" => reply[r] = Prompt

C4_Witness ==
    \E r, q \in Reqs :
        /\ pc[r] = "done" /\ body[r] = WithText("   ") /\ reply[r] = Prompt
        /\ pc[q] = "done" /\ body[q] = NoText /\ reply[q] = Prompt

\* the rules of the running server that match the normalized form of text
Matching(text) ==
    { k \in 1..Len(Rules(server)) : RuleMatches(Rules(server)[k], normalize_intent(text)) }

First(S) == CHOOSE k \in S : \A j \in S : k <= j

\* C5: local_answer gives the response of the earliest rule, in source order,
\* whose predicate matches, evaluates no later rule, and gives None exactly
\* when no rule matches; "hello" and "who are you" get their fixed reply and
\* the backend is not invoked.
C5_FirstMatchWins ==
    \A r \in Reqs :
        LET u == user_text[r]
            n == Len(calls[r])
            M == Matching(u)
        IN  /\ n >= 2 =>
                  IF M = {}
                  THEN /\ probes[r] = Len(Rules(server))
                       /\ pc[r] # "done" \/ n = 3
                       /\ n = 2 => reply[r] = None
                  ELSE /\ probes[r] = First(M)
                       /\ n = 2 /\ pc[r] = "done"
                       /\ reply[r] = RuleReply(Rules(server)[First(M)], now[r])
            /\ (Ended(r) /\ lower(u) = "hello") =>
                  /\ Invoked(r) = <<"try_math", "local_answer">>
                  /\ reply[r] = Fixed(IF server = "ai_server.py"
                                      THEN "Hello, I am Aarya, how can I assist you today."
                                      ELSE "Hello! I am Aarya. How can I help you today?")
            /\ (Ended(r) /\ u = "who are you") =>
                  /\ Invoked(r) = <<"try_math", "local_answer">>
                  /\ reply[r] = Fixed(IF server = "ai_server.py"
                                      THEN "I am Aarya, a humanoid receptionist robot developed by Ecruxbot."
                                      ELSE "I am Aarya, your friendly humanoid receptionist robot.")

C5_Witness ==
    \E r \in Reqs :
        /\ server = "ai_server.py"
        /\ user_text[r] = "team ecruxbot thanks"
        /\ Cardinality(Matching(user_text[r])) = 2
        /\ pc[r] = "done"
        /\ reply[r] = Fixed("Ecruxbot is an Indian robotics and artificial intelligence company.")

\* the text holds syntax beyond numeric literals and the four operators:
\* parentheses, an exponent sign or a letter next to a number
ExtraSyntax(text) ==
    \E c \in {"(", ")", "^"} : Contains(text, c)

\* C6: for every input with parentheses (or other extra syntax) the math path
\* yields a failure, never a value computed from a rewritten expression.
C6_ExtraSyntaxFails ==
    \A r \in Reqs :
        (Len(calls[r]) >= 1 /\ ExtraSyntax(user_text[r])) => ~math_reply[r].some

Operators == {"+", "-", "*", "/"}

\* where the operator characters of e stand, and the k-th of them
OpPositions(e) == { i \in 1..Len(e) : At(e, i) \in Operators }
OpPos(e, k) == CHOOSE i \in OpPositions(e) : Cardinality({ j \in OpPositions(e) : j < i }) = k - 1

\* the k-th operand of e: what stands between two operator characters, or
\* between one and an end of e, without the whitespace around it
Operand(e, k) ==
    LET n == Cardinality(OpPositions(e))
        from == IF k = 1 THEN 1 ELSE OpPos(e, k - 1) + 1
        to == IF k = n + 1 THEN Len(e) ELSE OpPos(e, k) - 1
    IN  strip(SubSeq(e, from, to))

\* w is a decimal literal: digits with at most one point, and an integer has no
\* leading zero unless it is all zeros
RefLiteral(w) ==
    LET points == { i \in 1..Len(w) : At(w, i) = "." } IN
    /\ \A i \in 1..Len(w) : At(w, i) \in Digits \cup {"."}
    /\ \E i \in 1..Len(w) : At(w, i) \in Digits
    /\ Cardinality(points) <= 1
    /\ points = {} => (Len(w) = 1 \/ At(w, 1) # "0" \/ \A i \in 1..Len(w) : At(w, i) = "0")

\* e is one expression of literals joined by binary operators
RefValid(e) ==
    /\ e # ""
    /\ \A k \in 1..(Cardinality(OpPositions(e)) + 1) : RefLiteral(Operand(e, k))

\* the fraction a literal denotes
RefLiteralValue(w) ==
    LET point == IF \E i \in 1..Len(w) : At(w, i) = "."
                 THEN CHOOSE i \in 1..Len(w) : At(w, i) = "." ELSE Len(w) + 1
        digits == KeepOnly(w, Digits)
    IN  [n |-> DigitsValue(digits, 1, Len(digits) + 1),
         d |-> Pow10(IF point > Len(w) THEN 0 ELSE Len(w) - point)]

RECURSIVE RefFold(_, _, _, _)
\* e from its k-th operator on; sum: the terms closed so far, term: the
\* product being built.  defined = FALSE when e divides by zero.
RefFold(e, k, sum, term) ==
    IF k > Cardinality(OpPositions(e))
    THEN [defined |-> TRUE, n |-> sum.n * term.d + term.n * sum.d, d |-> sum.d * term.d]
    ELSE LET op == At(e, OpPos(e, k))
             x == RefLiteralValue(Operand(e, k + 1))
             closed == [n |-> sum.n * term.d + term.n * sum.d, d |-> sum.d * term.d]
         IN  CASE op = "*" -> RefFold(e, k + 1, sum, [n |-> term.n * x.n, d |-> term.d * x.d])
               [] op = "/" ->
                    IF x.n = 0 THEN [defined |-> FALSE, n |-> 0, d |-> 1]
                    ELSE RefFold(e, k + 1, sum, [n |-> term.n * x.d, d |-> term.d * x.n])
               [] op = "+" -> RefFold(e, k + 1, closed, x)
               [] op = "-" -> RefFold(e, k + 1, closed, [n |-> -x.n, d |-> x.d])

\* the fraction q in lowest terms, its denominator positive
Lowest(q) ==
    LET g == GCD(Abs(q.n), Abs(q.d))
        sg == IF q.d < 0 THEN -1 ELSE 1
    IN  [n |-> sg * (q.n \div g), d |-> sg * (q.d \div g)]

\* the value of a valid expression by the rules of arithmetic: products and
\* quotients first, from left to right, then sums and differences, from left
\* to right
RefValue(e) == RefFold(e, 1, [n |-> 0, d |-> 1], RefLiteralValue(Operand(e, 1)))

C8_MathReplyFormat ==
    \A r \in Reqs :
        math_reply[r].some =>
            /\ math_reply[r].fmt = "The answer is: {}."
            /\ math_reply[r].num.d = 1 => ~math_reply[r].num.f

\* what a handler that runs alone returns for this body, clock value read and
\* backend response
SequentialReply(b, clk, resp) ==
    LET u == strip(IF b.has THEN b.text ELSE "")
        m == try_math(u)
        a == local_answer(u, clk).reply
    IN  IF u = "" THEN Prompt
        ELSE IF Truthy(m) THEN m
        ELSE IF Truthy(a) THEN a
        ELSE ollama_reply(resp.content)

\* C9: under any interleaving of the handler threads no request modifies
\* NUM_WORDS, OP_WORDS or ALLOWED_OPS, and the reply to a request is the one
\* its own text, the clock value it read and the backend's response to it
\* determine.
C9_RequestsIndependent ==
    /\ NUM_WORDS = NumWordsInit
    /\ OP_WORDS = OpWordsInit
    /\ ALLOWED_OPS = AllowedOpsInit
    /\ \A r \in Reqs :
          pc[r] = "done" => reply[r] = SequentialReply(body[r], now[r], response[r])

C9_Witness ==
    \E r, q \in Reqs :
        /\ pc[r] = "done" /\ body[r].text = "what is the time now?" /\ now[r] = 1
        /\ reply[r] = Filled("The current time is %I:%M %p.", IntNum(1))
        /\ pc[q] = "done" /\ body[q].text = "two plus two"
        /\ reply[q] = Filled(MathFormat(server), IntNum(2 + 2))

\* the operator words and symbols, and the cue words of the gate
OperatorWords ==
    {"plus", "minus", "into", "times", "multiply", "multiplied", "divide", "divided"}

NumberNames == { NumWordsInit[k].word : k \in 1..Len(NumWordsInit) }

\* where a digit run of t starts, and where a whole-word number name stands
DigitRuns(t) ==
    { i \in 1..Len(t) : At(t, i) \in Digits /\ (i = 1 \/ At(t, i - 1) \notin Digits) }
NameUses(t) ==
    { <<i, w>> \in (1..Len(t)) \X NumberNames : MatchAt(t, i, w, TRUE, TRUE) }

\* t holds exactly one digit run or whole-word number name, and no operator
\* word or symbol
OneNumberNoOperator(t) ==
    /\ Cardinality(DigitRuns(t)) + Cardinality(NameUses(t)) = 1
    /\ \A w \in OperatorWords \cup Operators : ~Contains(t, w)

\* the number that one digit run or number name spells
TheNumber(t) ==
    IF DigitRuns(t) # {}
    THEN LET i == CHOOSE j \in DigitRuns(t) : TRUE IN DigitsValue(t, i, DigitsEnd(t, i))
    ELSE LET u == CHOOSE v \in NameUses(t) : TRUE
         IN  (CHOOSE k \in 1..Len(NumWordsInit) : NumWordsInit[k].word = u[2]) - 1

\* the one digit run of t, if any, is a decimal integer Python accepts
PlainDigitRun(t) ==
    \A i \in DigitRuns(t) : RefLiteral(SubSeq(t, i, DigitsEnd(t, i) - 1))

\* request r was answered by the math path alone, with the math reply for n
MathAnswered(r, n) ==
    /\ math_reply[r] = Filled(MathFormat(server), IntNum(n))
    /\ pc[r] = "done"
    /\ reply[r] = math_reply[r]
    /\ Invoked(r) = <<"try_math">>

=============================================================================
